---- MODULE Spec2Model ----
(***************************************************************************)
(* The plan / action / observe / output orchestration loop of HR Buddy.    *)
(*                                                                         *)
(* The repository holds three variants of process_query:                   *)
(*   Unified     src/hr buddy/chatbot.py        (UnifiedHRClient tools)    *)
(*   Simplified  src/hr_buddy/chatbot.py        (SimplifiedHRClient tools) *)
(*   Basic       src/hr buddy/fastapi_server.py (no iteration cap)         *)
(* One behaviour of Spec is one call of process_query in one variant: the  *)
(* language model and the tools are the environment, every loop iteration  *)
(* is one action.                                                          *)
(*                                                                         *)
(* JSON values are tagged records [t |-> type, v |-> payload]; a key that  *)
(* is missing from an object is the value Absent.  A mapping is the        *)
(* sequence of its <<key, value>> pairs in insertion order.                *)
(***************************************************************************)
EXTENDS Integers, Sequences, FiniteSets, TLC

VARIABLES
    variant,          \* which process_query is running
    pc,               \* "running" inside the while loop, "done" after return
    iteration_count,  \* the loop counter of the capped variants
    model_calls,      \* calls of client.chat.completions.create so far
    actions_taken,    \* action directives handled so far in this turn
    messages,         \* the transcript handed to process_query
    reply,            \* the model reply handled by the last iteration
    invocations,      \* the tool invocations made by the last iteration
    result,           \* the value process_query returned
    http,             \* the answer of POST /chat to this request
    gateway_outcome,  \* a gateway outcome handed to an error normalizer
    normalized,       \* what the error normalizer made of gateway_outcome
    conversations,    \* the store: conversation id -> transcript
    hr_client,        \* the token set on the shared, process-wide client
    requests,         \* every request: not sent, in flight or answered
    handling,         \* the request whose handler is running
    answer,           \* the last answer the server sent
    backend,          \* what the backend does to successive HTTP attempts
    http_attempts     \* HTTP attempts made by one gateway call

\* the state of the server around process_query, and of one gateway call
server_vars == <<conversations, hr_client, requests, handling, answer>>
gateway_vars == <<backend, http_attempts>>

vars == <<variant, pc, iteration_count, model_calls, actions_taken,
          messages, reply, invocations, result, http, gateway_outcome, normalized,
          conversations, hr_client, requests, handling, answer,
          backend, http_attempts>>

----------------------------------------------------------------------------
(* Bounds of the model                                                     *)

\* action directives the model may emit in one turn
MaxActions == 1

\* model calls after which the uncapped variant is no longer followed
MaxModelCalls == 12

----------------------------------------------------------------------------
(* Program constants                                                       *)

max_iterations == 10

\* @retry_on_failure(max_retries=2, delay=0.5) on _make_request
max_retries == 2

Unified == "hr buddy/chatbot.py"
Simplified == "hr_buddy/chatbot.py"
Basic == "hr buddy/fastapi_server.py"

Variants == {Unified, Simplified, Basic}

\* the variants whose while loop tests iteration_count < max_iterations
Capped == {Unified, Simplified}

----------------------------------------------------------------------------
(* JSON values                                                             *)

Absent == [t |-> "absent"]
Null == [t |-> "null"]
Str(s) == [t |-> "str", v |-> s]
Num(n) == [t |-> "num", v |-> n]
Bool(b) == [t |-> "bool", v |-> b]
List(s) == [t |-> "list", v |-> s]
Dict(pairs) == [t |-> "dict", v |-> pairs]

\* dict.get(key): a missing key reads as None
Get(field) == IF field = Absent THEN Null ELSE field

\* dict.get(key, default): only a missing key reads as the default
GetDefault(field, default) == IF field = Absent THEN default ELSE field

\* Python truth value, as tested by `if tool_input:`
Truthy(x) ==
    CASE x.t = "absent" -> FALSE
      [] x.t = "null" -> FALSE
      [] x.t = "str" -> x.v # ""
      [] x.t = "num" -> x.v # 0
      [] x.t = "bool" -> x.v
      [] x.t = "list" -> Len(x.v) > 0
      [] x.t = "dict" -> Len(x.v) > 0

\* len(x) is defined
HasLen(x) == x.t \in {"str", "list", "dict"}

\* x can be looked up in a dict (`x in available_tools`)
Hashable(x) == x.t \notin {"list", "dict"}

----------------------------------------------------------------------------
(* Mappings and the string inputs of the model                              *)

M1 == << <<"period", Str("week")>> >>
M2 == << <<"employee_id", Str("EMP001")>>, <<"period", Str("week")>> >>
M2r == << <<"period", Str("week")>>, <<"employee_id", Str("EMP001")>> >>
M3 == << <<"employee_id", Str("EMP001")>>, <<"start_date", Str("2025-01-01")>>,
         <<"end_date", Str("2025-01-31")>> >>

\* the JSON text of a mapping, by its name
JsonText1 == "{\"period\": \"week\"}"
JsonText2 == "{\"employee_id\": \"EMP001\", \"period\": \"week\"}"
JsonText2r == "{\"period\": \"week\", \"employee_id\": \"EMP001\"}"
JsonText3 == "{\"employee_id\": \"EMP001\", \"start_date\": \"2025-01-01\", \"end_date\": \"2025-01-31\"}"
BrokenText == "{employee_id: EMP001"

\* str.startswith('{')
StartsWithBrace(s) == s \in {JsonText1, JsonText2, JsonText2r, JsonText3, BrokenText}

JSONDecodeError == [t |-> "JSONDecodeError"]

\* json.loads on the string inputs of the model
JsonLoads(s) ==
    CASE s = JsonText1 -> Dict(M1)
      [] s = JsonText2 -> Dict(M2)
      [] s = JsonText2r -> Dict(M2r)
      [] s = JsonText3 -> Dict(M3)
      [] OTHER -> JSONDecodeError

Keys(pairs) == {pairs[i][1] : i \in 1..Len(pairs)}
Values(pairs) == [i \in 1..Len(pairs) |-> pairs[i][2]]

----------------------------------------------------------------------------
(* Outcomes: the dict a gateway call or a registered tool returns          *)

\* an f-string of the program: its template and the text it embeds
Templated(template, arg) == [t |-> "str", v |-> template, arg |-> arg]

\* The keys of an outcome the program reads or tests; a key the dict does
\* not have is Absent.
NoKeys ==
    [success |-> Absent, data |-> Absent, message |-> Absent,
     status_code |-> Absent, error_type |-> Absent, error |-> Absent,
     user_message |-> Absent, formatted_response |-> Absent]

\* {"success": True, "data": ..., "formatted_response": ...}
OkFormatted ==
    [NoKeys EXCEPT !.success = Bool(TRUE), !.data = Dict(<<>>),
                   !.formatted_response = Str("formatted text")]

\* {"success": True, "data": ..., "status_code": ...}
OkRaw ==
    [NoKeys EXCEPT !.success = Bool(TRUE), !.data = Null,
                   !.status_code = Num(200)]

\* {"success": False, "error": ..., "user_message": ..., "details": ...}
FailUser ==
    [NoKeys EXCEPT !.success = Bool(FALSE), !.error = Str("raw error"),
                   !.user_message = Str("user message")]

\* {"success": False, "message": ...}
FailBare ==
    [NoKeys EXCEPT !.success = Bool(FALSE), !.message = Str("gateway message")]

\* what a call leaves behind when it raises instead of returning
Raised(type) == [raised |-> type]

IsRaised(outcome) == "raised" \in DOMAIN outcome

\* `not output.get("success", True)`
Failed(outcome) == ~Truthy(GetDefault(outcome.success, Bool(TRUE)))

----------------------------------------------------------------------------
(* The backend gateway: SimplifiedHRClient._make_request                   *)

\* what session.request and response.json() can do, by HTTP status
BackendEvents ==
    {"200", "200 null body", "200 undecodable body", "400", "400 undecodable body",
     "401", "403", "404", "500", "Timeout", "ConnectionError"}

\* the decoded body of a well-formed answer: {success, data: {...}}
NestedBody == Dict(<< <<"success", Bool(TRUE)>>, <<"data", Dict(<<>>)>> >>)

Failure(message, status_code, error_type) ==
    [NoKeys EXCEPT !.success = Bool(FALSE), !.message = message,
                   !.status_code = status_code, !.error_type = Str(error_type)]

_make_request(event) ==
    CASE event = "401" ->
            Failure(Str("Authentication required or token expired"), Num(401),
                    "authentication_error")
      [] event = "403" ->
            Failure(Str("Insufficient permissions to access this resource"), Num(403),
                    "permission_error")
      [] event = "404" ->
            Failure(Str("Resource not found or endpoint does not exist"), Num(404),
                    "not_found_error")
      [] event = "400" ->
            Failure(Templated("Bad request: <detail>", "Invalid request parameters"),
                    Num(400), "validation_error")
      [] event = "400 undecodable body" ->
            Failure(Str("Bad request: Invalid request parameters or format"),
                    Num(400), "validation_error")
      [] event = "200" ->
            [NoKeys EXCEPT !.success = Bool(TRUE), !.data = NestedBody,
                           !.status_code = Num(200)]
      [] event = "200 null body" ->
            [NoKeys EXCEPT !.success = Bool(TRUE), !.data = Null,
                           !.status_code = Num(200)]
      [] event = "200 undecodable body" ->
            Failure(Str("Invalid JSON response from server"), Absent,
                    "json_decode_error")
      [] event = "Timeout" ->
            Failure(Str("Request timed out. The server might be busy, please try again."),
                    Absent, "timeout_error")
      [] event = "ConnectionError" ->
            Failure(Str("Unable to connect to the server. Please check your internet connection."),
                    Absent, "connection_error")
      [] event = "500" ->
            Failure(Templated("Unexpected error: <msg>", "HTTPError"), Absent,
                    "unexpected_error")

\* api_response.get("data", {}).get("data", {}) raises AttributeError
Unformattable(api_response) == api_response.data.t # "dict"

\* format_task_response of the simplified chatbot
format_task_response(api_response) ==
    IF ~Truthy(Get(api_response.success))
    THEN api_response
    ELSE IF Unformattable(api_response)
         THEN api_response
         ELSE [NoKeys EXCEPT !.success = Bool(TRUE), !.data = Dict(<<>>),
                             !.formatted_response =
                                 Str("Task reports data retrieved successfully.")]

\* a variant of format_employees_response whose failure keeps the data it
\* could not format
format_employees_response_keeping_data(api_response) ==
    IF ~Truthy(Get(api_response.success))
    THEN api_response
    ELSE IF Unformattable(api_response)
         THEN [NoKeys EXCEPT !.success = Bool(FALSE), !.error = Str("AttributeError"),
                             !.data = api_response.data,
                             !.formatted_response = Str("Error formatting employee data.")]
         ELSE [NoKeys EXCEPT !.success = Bool(TRUE), !.data = List(<<>>),
                             !.formatted_response = Str("No employees found in the system.")]

\* format_employees_response of the simplified chatbot
format_employees_response(api_response) ==
    IF ~Truthy(Get(api_response.success))
    THEN api_response
    ELSE IF Unformattable(api_response)
         THEN [NoKeys EXCEPT !.success = Bool(FALSE), !.error = Str("AttributeError"),
                             !.formatted_response = Str("Error formatting employee data.")]
         ELSE [NoKeys EXCEPT !.success = Bool(TRUE), !.data = List(<<>>),
                             !.formatted_response = Str("No employees found in the system.")]

----------------------------------------------------------------------------
(* The unified tool functions: hr_functions.handle_api_response            *)

\* The answers of UnifiedHRClient, whose module is not part of the sources:
\* a uniform outcome with success plus either data or message, status code
\* and error kind.
UnifiedClientResponses ==
    {[NoKeys EXCEPT !.success = Bool(TRUE), !.data = NestedBody],
     Failure(Str("Authentication required or token expired"), Num(401),
             "authentication_error")}

\* handle_api_response of hr_functions.py
handle_api_response(response) ==
    IF ~Truthy(GetDefault(response.success, Bool(TRUE)))
    THEN LET error_msg == GetDefault(response.message, Str("Unknown error occurred")) IN
         [NoKeys EXCEPT !.success = Bool(FALSE), !.error = error_msg,
                        !.user_message =
                            Templated("Unable to complete the request: <msg>", error_msg)]
    ELSE [NoKeys EXCEPT !.success = Bool(TRUE),
                        !.data = GetDefault(response.data, Dict(<<>>)),
                        !.formatted_response = Str("formatted text")]

----------------------------------------------------------------------------
(* The tool registries                                                     *)

\* One run of a tool: what the gateway answered (Absent when the tool makes
\* no gateway call or the call never started) and what the tool returned.
Run(gateway, outcome) == [gateway |-> gateway, outcome |-> outcome]

UnifiedRuns == {Run(r, handle_api_response(r)) : r \in UnifiedClientResponses}

\* the answers the backend gives to the task report requests
TaskEvents == {"200", "200 null body", "401"}

TaskRuns ==
    {Run(_make_request(e), format_task_response(_make_request(e))) : e \in TaskEvents}

EmployeesRuns ==
    {Run(_make_request(e), format_employees_response(_make_request(e))) :
        e \in BackendEvents}

\* A registry entry: the parameter names of the registered lambda in order,
\* how many of them have no default, and the runs the tool can make.
UnifiedTools ==
    [name \in {"get_all_employees", "get_employee_attendance_analysis"} |->
        IF name = "get_all_employees"
        THEN [params |-> <<>>, required |-> 0, runs |-> UnifiedRuns]
        ELSE [params |-> <<"employee_id", "period">>, required |-> 1,
              runs |-> UnifiedRuns]]

SimplifiedTools ==
    [name \in {"get_today_date", "get_all_employees", "get_task_reports_overview",
               "get_employee_task_reports"} |->
        CASE name = "get_today_date" ->
                [params |-> <<>>, required |-> 0, runs |-> {Run(Absent, OkFormatted)}]
          [] name = "get_all_employees" ->
                [params |-> <<>>, required |-> 0, runs |-> EmployeesRuns]
          [] name = "get_task_reports_overview" ->
                [params |-> <<"period">>, required |-> 0, runs |-> TaskRuns]
          [] name = "get_employee_task_reports" ->
                [params |-> <<"employee_id", "start_date", "end_date">>,
                 required |-> 3, runs |-> TaskRuns]]

BasicTools ==
    [name \in {"get_all_employee", "get_my_profile"} |->
        [params |-> <<>>, required |-> 0,
         runs |-> {Run(Absent, OkRaw), Run(Absent, FailBare)}]]

available_tools(v) ==
    CASE v = Unified -> UnifiedTools
      [] v = Simplified -> SimplifiedTools
      [] v = Basic -> BasicTools

ToolNames(v) == DOMAIN available_tools(v)

----------------------------------------------------------------------------
(* Parameter resolution and invocation                                     *)

NoArgs == [args |-> <<>>, kwargs |-> <<>>]
Positional(values) == [args |-> values, kwargs |-> <<>>]
Named(pairs) == [args |-> <<>>, kwargs |-> pairs]

\* The arguments process_query passes to the tool for a directive's input
\* (the `if tool_input:` block of the capped variants).
ResolveArguments(tool_input) ==
    IF Truthy(tool_input)
    THEN IF tool_input.t = "str" /\ StartsWithBrace(tool_input.v)
         THEN LET params == JsonLoads(tool_input.v) IN
              IF params = JSONDecodeError
              THEN Positional(<<tool_input>>)
              ELSE IF Len(params.v) = 1
                   THEN Positional(<<Values(params.v)[1]>>)
                   ELSE IF Len(params.v) = 2
                        THEN Positional(<<Values(params.v)[1], Values(params.v)[2]>>)
                        ELSE Named(params.v)
         ELSE Positional(<<tool_input>>)
    ELSE NoArgs

\* The arguments of the uncapped variant: available_tools[tool_name]()
ResolveArgumentsBasic(tool_input) == NoArgs

Arguments(v, tool_input) ==
    IF v = Basic THEN ResolveArgumentsBasic(tool_input)
    ELSE ResolveArguments(tool_input)

ParamIndex(sig, name) == CHOOSE i \in 1..Len(sig.params) : sig.params[i] = name

\* Python binds the call to the lambda's parameters without a TypeError
Binds(sig, call) ==
    /\ Len(call.args) <= Len(sig.params)
    /\ \A k \in Keys(call.kwargs) :
          /\ \E i \in 1..Len(sig.params) : sig.params[i] = k
          /\ ParamIndex(sig, k) > Len(call.args)
    /\ \A i \in 1..sig.required :
          i <= Len(call.args) \/ sig.params[i] \in Keys(call.kwargs)

\* What invoking the tool can produce: a TypeError when the call does not
\* bind, otherwise one of the runs of the tool.
ToolResults(sig, call) ==
    IF Binds(sig, call) THEN sig.runs ELSE {Run(Absent, Raised("TypeError"))}

Invocation(name, call, run) ==
    [tool |-> name, call |-> call, gateway |-> run.gateway, outcome |-> run.outcome]

\* the input takes the branch that decodes it and decoding succeeds
DecodedInput(tool_input) ==
    /\ Truthy(tool_input)
    /\ tool_input.t = "str"
    /\ StartsWithBrace(tool_input.v)
    /\ JsonLoads(tool_input.v) # JSONDecodeError

\* a variant of Invocations that invokes the tool again, on the input as
\* given, after any exception
InvocationsRetryingAnyException(v, name, tool_input) ==
    LET sig == available_tools(v)[name]
        first == Arguments(v, tool_input)
        again == Positional(<<tool_input>>)
    IN UNION {IF v \in Capped /\ IsRaised(run.outcome)
              THEN {<<Invocation(name, first, run), Invocation(name, again, rerun)>> :
                       rerun \in ToolResults(sig, again)}
              ELSE {<<Invocation(name, first, run)>>} :
              run \in ToolResults(sig, first)}

\* The invocations one action directive makes: the tool is invoked on the
\* resolved arguments; in the capped variants `except json.JSONDecodeError`
\* around the `if tool_input:` block also catches a JSONDecodeError raised
\* by the invocation of a decoded input and invokes the tool on the input
\* as given.
Invocations(v, name, tool_input) ==
    LET sig == available_tools(v)[name]
        first == Arguments(v, tool_input)
        again == Positional(<<tool_input>>)
    IN UNION {IF /\ v \in Capped
                 /\ DecodedInput(tool_input)
                 /\ run.outcome = Raised("JSONDecodeError")
              THEN {<<Invocation(name, first, run), Invocation(name, again, rerun)>> :
                       rerun \in ToolResults(sig, again)}
              ELSE {<<Invocation(name, first, run)>>} :
              run \in ToolResults(sig, first)}

----------------------------------------------------------------------------
(* Model replies                                                           *)

\* A reply is the raw content of the model's message: raw tells how far
\* json.loads gets with it, the other fields are the keys of the directive.
Directive(step, function, input, content) ==
    [raw |-> "object", step |-> step, function |-> function,
     input |-> input, content |-> content]

NotJsonReply ==
    [raw |-> "not_json", step |-> Absent, function |-> Absent,
     input |-> Absent, content |-> Absent]

NotObjectReply ==
    [raw |-> "not_object", step |-> Absent, function |-> Absent,
     input |-> Absent, content |-> Absent]

NoContentReply ==
    [raw |-> "none", step |-> Absent, function |-> Absent,
     input |-> Absent, content |-> Absent]

NoReply ==
    [raw |-> "no_reply", step |-> Absent, function |-> Absent,
     input |-> Absent, content |-> Absent]

Contents == {Absent, Null, Str("Today is 2025-01-01."), Num(42), List(<<Str("a")>>)}

Inputs ==
    {Absent, Null, Str("month"), Str(""), Str(JsonText1), Str(JsonText2),
     Str(JsonText2r), Str(JsonText3), Str(BrokenText), Num(0), Num(7),
     Bool(TRUE), Bool(FALSE), Dict(<<>>), Dict(M1), Dict(M2), Dict(M3)}

UnknownFunctions == {Str("bogus_tool"), Absent}

\* the inputs sent along with a function that is not invoked
UninvokedInputs == {Absent, Str("month")}
UnhashableFunctions == {List(<<Str("get_today_date")>>)}
OtherSteps == {Absent, Str("observe")}

PlanReply == Directive(Str("plan"), Absent, Absent, Absent)

----------------------------------------------------------------------------
(* Messages                                                                *)

Message(role, content) == [role |-> role, content |-> content]

SystemPrompt == [kind |-> "sys_prompt"]
UserQuery == [kind |-> "query"]

\* The content of the assistant message: the raw reply, of which the
\* transcript of the model keeps everything but the input.
Transcribed(r) ==
    [kind |-> "reply", raw |-> r.raw, step |-> r.step,
     function |-> r.function, content |-> r.content]

AssistantMessage(r) == Message("assistant", Transcribed(r))

\* json.dumps({"step": "observe", <key>: <body>, ...}) as a user message
Observation(key, body, tool_name, available) ==
    Message("user", [kind |-> "observe", key |-> key, body |-> body,
                     tool_name |-> tool_name, available |-> available])

\* f"Tool execution failed for {tool_name}: {str(e)}"
ToolFailedText(tool_name, exc) ==
    [template |-> "Tool execution failed for <name>: <msg>",
     name |-> tool_name, exc |-> exc]

\* f"Tool execution failed: {str(e)}"
ToolFailedTextBasic(exc) ==
    [template |-> "Tool execution failed: <msg>", name |-> Absent, exc |-> exc]

\* f"Tool '{tool_name}' not available. Available tools: {', '.join(...)}"
NotAvailableText(tool_name, available) ==
    [template |-> "Tool '<name>' not available. Available tools: <names>",
     name |-> tool_name, names |-> available]

\* f"Tool '{tool_name}' not available"
NotAvailableTextBasic(tool_name) ==
    [template |-> "Tool '<name>' not available", name |-> tool_name, names |-> {}]

IsObservation(m) == m.role = "user" /\ m.content.kind = "observe"

----------------------------------------------------------------------------
(* Return values of process_query                                          *)

NoResult == [kind |-> "none", value |-> Absent, exc |-> ""]

\* a directive's content (or its default) handed back as the answer
Returned(kind, value) == [kind |-> kind, value |-> value, exc |-> ""]

\* a fixed message of the program
Fixed(kind) == [kind |-> kind, value |-> Str(kind), exc |-> ""]

\* a message that embeds str(e) of the exception caught
Embedding(kind, exc) == [kind |-> kind, value |-> Str(kind), exc |-> exc]

DefaultOutput == Str("I couldn't process your request properly.")
DefaultIssue == Str("I encountered an issue processing your request.")
DefaultUnknownStep == Str("I encountered an unknown processing step: <step>")
UnknownStepText == Str("I encountered an unknown processing step. Please try rephrasing your question.")

----------------------------------------------------------------------------
(* What each variant does with an exception, a reply and a tool outcome    *)

\* The handler around the body of the loop (`except Exception as e`)
OuterHandler(v, exc) ==
    CASE v = Unified -> Embedding("unexpected_error", exc)
      [] v = Simplified -> Embedding("processing_error", exc)
      [] v = Basic -> Fixed("trouble")

\* json.loads(raw_content) raised JSONDecodeError
ParseFailed(v) ==
    CASE v = Unified -> Fixed("invalid_format")
      [] v = Simplified -> Fixed("invalid_format")
      [] v = Basic -> Fixed("json_error")

\* the `elif step == "output"` branch
OutputResult(v, content) ==
    LET final_content == GetDefault(content, DefaultOutput) IN
    IF v \in Capped /\ ~HasLen(final_content)
    THEN OuterHandler(v, "TypeError")
    ELSE Returned("output", final_content)

\* the final `else` branch
OtherStepResult(v, content) ==
    CASE v = Unified -> Returned("fallback", GetDefault(content, DefaultUnknownStep))
      [] v = Simplified -> Returned("fallback", UnknownStepText)
      [] v = Basic -> Returned("fallback", GetDefault(content, DefaultIssue))

\* a variant of ToolObservation that reports a raised call the way the
\* uncapped variant does, without the name of the tool
ToolObservationWithoutName(v, name, outcome) ==
    IF IsRaised(outcome)
    THEN Observation("error", ToolFailedTextBasic(outcome.raised), Absent, {})
    ELSE IF v = Basic
         THEN Observation("output", [t |-> "outcome", v |-> outcome], Absent, {})
         ELSE IF Failed(outcome)
              THEN Observation("error",
                       GetDefault(outcome.user_message,
                           GetDefault(outcome.error, Str("Unknown error occurred"))),
                       Str(name), {})
              ELSE Observation("output",
                       IF outcome.formatted_response # Absent
                       THEN outcome.formatted_response
                       ELSE [t |-> "outcome", v |-> outcome],
                       Str(name), {})

\* a variant of ToolObservation that prefers the raw error string of a
\* failure over its user-facing message
ToolObservationPreferringError(v, name, outcome) ==
    IF v = Basic
    THEN IF IsRaised(outcome)
         THEN Observation("error", ToolFailedTextBasic(outcome.raised), Absent, {})
         ELSE Observation("output", [t |-> "outcome", v |-> outcome], Absent, {})
    ELSE IF IsRaised(outcome)
         THEN Observation("error", ToolFailedText(Str(name), outcome.raised), Str(name), {})
         ELSE IF Failed(outcome)
              THEN Observation("error",
                       GetDefault(outcome.error,
                           GetDefault(outcome.user_message, Str("Unknown error occurred"))),
                       Str(name), {})
              ELSE Observation("output",
                       IF outcome.formatted_response # Absent
                       THEN outcome.formatted_response
                       ELSE [t |-> "outcome", v |-> outcome],
                       Str(name), {})

\* the observation appended after invoking a registered tool
ToolObservation(v, name, outcome) ==
    IF v = Basic
    THEN IF IsRaised(outcome)
         THEN Observation("error", ToolFailedTextBasic(outcome.raised), Absent, {})
         ELSE Observation("output", [t |-> "outcome", v |-> outcome], Absent, {})
    ELSE IF IsRaised(outcome)
         THEN Observation("error", ToolFailedText(Str(name), outcome.raised), Str(name), {})
         ELSE IF Failed(outcome)
              THEN Observation("error",
                       GetDefault(outcome.user_message,
                           GetDefault(outcome.error, Str("Unknown error occurred"))),
                       Str(name), {})
              ELSE Observation("output",
                       IF outcome.formatted_response # Absent
                       THEN outcome.formatted_response
                       ELSE [t |-> "outcome", v |-> outcome],
                       Str(name), {})

\* the observation appended when tool_name is not a key of available_tools
UnknownToolObservation(v, tool_name) ==
    CASE v = Unified ->
            Observation("error", NotAvailableText(tool_name, ToolNames(v)), Absent, ToolNames(v))
      [] v = Simplified ->
            Observation("error", NotAvailableText(tool_name, ToolNames(v)), Absent, {})
      [] v = Basic ->
            Observation("error", NotAvailableTextBasic(tool_name), Absent, {})

----------------------------------------------------------------------------
(* POST /chat                                                              *)

NoHttp == [status |-> 0, response |-> Absent]

\* ChatResponse(response=..., ...) returned with status 200
HttpOk(response) == [status |-> 200, response |-> response]

\* HTTPException(status_code=500, ...) raised by `except Exception`
HttpError == [status |-> 500, response |-> Absent]

\* str(n), the string a lax model makes of a number
StrOf(x) == Templated("<number>", x.v)

\* ChatResponse declares `response: str`: validation rejects None, a list
\* and an object; a number is turned into a string or rejected, depending on
\* the pydantic release installed.
ChatResponse(final_response) ==
    CASE final_response.t = "str" -> {HttpOk(final_response)}
      [] final_response.t = "num" -> {HttpOk(StrOf(final_response)), HttpError}
      [] OTHER -> {HttpError}

\* What chat_endpoint answers for the value process_query returned; the
\* unified endpoint first logs len(final_response).
ChatResponses(v, final_response) ==
    IF v = Unified /\ ~HasLen(final_response)
    THEN {HttpError}
    ELSE ChatResponse(final_response)

----------------------------------------------------------------------------
(* The error normalizer of utils.py                                        *)

ErrorKinds ==
    {"authentication_error", "permission_error", "validation_error",
     "not_found_error", "timeout_error", "connection_error",
     "json_decode_error", "unexpected_error"}

NotNormalized == [by |-> "nobody", out |-> NoKeys]

Normalized(by, out) == [by |-> by, out |-> out]

\* handle_api_response of utils.py
utils_handle_api_response(response) ==
    IF ~Truthy(GetDefault(response.success, Bool(FALSE)))
    THEN LET error_type == GetDefault(response.error_type, Str("unknown_error"))
             message == GetDefault(response.message, Str("An unknown error occurred"))
         IN CASE error_type = Str("authentication_error") ->
                    [NoKeys EXCEPT
                        !.success = Bool(FALSE),
                        !.error = Str("Authentication failed. Please ensure you're logged in."),
                        !.user_message = Str("It seems your session has expired. Please log in again to access this information.")]
              [] error_type = Str("permission_error") ->
                    [NoKeys EXCEPT
                        !.success = Bool(FALSE),
                        !.error = Str("Insufficient permissions for this operation."),
                        !.user_message = Str("You don't have permission to access this information. Please contact your HR administrator.")]
              [] error_type = Str("validation_error") ->
                    [NoKeys EXCEPT
                        !.success = Bool(FALSE),
                        !.error = Templated("Invalid request parameters: <msg>", message),
                        !.user_message = Templated("There was an issue with the request format. <msg>", message)]
              [] error_type = Str("not_found_error") ->
                    [NoKeys EXCEPT
                        !.success = Bool(FALSE),
                        !.error = Str("Resource not found."),
                        !.user_message = Str("The requested information could not be found. It may not exist or may have been moved.")]
              [] OTHER ->
                    [NoKeys EXCEPT
                        !.success = Bool(FALSE),
                        !.error = message,
                        !.user_message = Str("I'm unable to retrieve that information right now due to a system error. Please try again later or contact support if the issue persists.")]
    ELSE [NoKeys EXCEPT !.success = Bool(TRUE),
                        !.data = GetDefault(response.data, Dict(<<>>))]

\* the outcomes handed to the normalizers
NormalizerInputs ==
    [success : {Bool(FALSE), Bool(TRUE), Absent},
     data : {Absent},
     message : {Absent, Str("raw message")},
     status_code : {Absent, Num(503)},
     error_type : {Str(k) : k \in ErrorKinds} \cup {Str("rate_limit_error"), Absent},
     error : {Absent},
     user_message : {Absent},
     formatted_response : {Absent}]

----------------------------------------------------------------------------
(* The server around process_query: requests, credentials, the store       *)

ConversationIds == {"a", "b"}

\* the requests one behaviour of the server receives
RequestSlots == {1, 2, 3}

\* the clients of the server: each has at most one request in flight
Clients == {"c1", "c2"}

\* the Authorization header values a /chat request may carry
Authorizations == {Absent, Str("Bearer t1"), Str("t2")}

\* str.startswith('Bearer ') and authorization[7:]
StartsWithBearer(authorization) == authorization = Str("Bearer t1")
AfterBearer(authorization) == Str("t1")

\* extract_token_from_header
extract_token_from_header(authorization) ==
    IF ~Truthy(authorization) THEN Null
    ELSE IF StartsWithBearer(authorization) THEN AfterBearer(authorization)
    ELSE authorization

\* What get_bearer_token returns for the fallback account: the token of the
\* login response, the default of `.get("token", ...)` when the response
\* has no token, or an error object.
TokenNotFound == Str("Token not found in response")
LoginError == Dict(<< <<"error", Str("HTTP error occurred")>> >>)
LoginResults == {Str("fallback"), TokenNotFound, LoginError}

\* isinstance(fallback_token, str)
IsStr(x) == x.t = "str"

Request(kind, conversation_id, authorization) ==
    [kind |-> kind, conversation_id |-> conversation_id,
     authorization |-> authorization]

NoRequest == Request("none", "", Absent)

\* the Basic endpoint declares no Authorization header parameter
ChatRequests(v) ==
    {Request("chat", id, authorization) :
        id \in ConversationIds,
        authorization \in IF v = Basic THEN {Absent} ELSE Authorizations}

\* only the Unified and the Basic server have the conversation routes
ConversationRequests(v) ==
    IF v = Simplified THEN {}
    ELSE {Request(kind, id, Absent) : kind \in {"get", "delete"}, id \in ConversationIds}

NotSent == [state |-> "not sent", request |-> NoRequest]
InFlight(request) == [state |-> "in flight", request |-> request]
Answered == [state |-> "answered", request |-> NoRequest]

\* no handler is running
NoHandling == [slot |-> 0, request |-> NoRequest, token |-> Absent, login |-> Absent]

\* the handler of the request in `slot` is running; token is the credential
\* the request came with or obtained, login what the fallback login returned
\* (Absent when it was not attempted)
Handling(slot, request, token, login) ==
    [slot |-> slot, request |-> request, token |-> token, login |-> login]

NoAnswer == [to |-> NoRequest, status |-> 0, body |-> <<>>, login |-> Absent]

Answer(request, status, body, login) ==
    [to |-> request, status |-> status, body |-> body, login |-> login]

\* conversations: Dict[str, List[Dict]] = {}
EmptyStore == [id \in {} |-> <<>>]

\* conversations[id] = transcript
Stored(store, id, transcript) ==
    [i \in DOMAIN store \cup {id} |-> IF i = id THEN transcript ELSE store[i]]

\* a variant of Without that empties the store
WithoutAll(store, id) == [i \in {} |-> <<>>]

\* del conversations[id]
Without(store, id) == [i \in DOMAIN store \ {id} |-> store[i]]

\* the server has started and has received nothing
ServerIdle ==
    /\ conversations = EmptyStore
    /\ requests = [slot \in RequestSlots |-> NotSent]
    /\ handling = NoHandling
    /\ answer = NoAnswer

\* no gateway call is followed
GatewayIdle ==
    /\ backend = <<>>
    /\ http_attempts = 0

----------------------------------------------------------------------------
(* The loop                                                                *)

Init ==
    /\ variant \in Variants
    /\ pc = "running"
    /\ iteration_count = 0
    /\ model_calls = 0
    /\ actions_taken = 0
    /\ messages = <<Message("system", SystemPrompt), Message("user", UserQuery)>>
    /\ reply = NoReply
    /\ invocations = <<>>
    /\ result = NoResult
    /\ http = NoHttp
    /\ gateway_outcome = NoKeys
    /\ normalized = NotNormalized
    /\ ServerIdle
    /\ hr_client = Str("t1")
    /\ GatewayIdle

\* a variant of CanIterate whose loop test is off by one
CanIterateOffByOne ==
    /\ pc = "running"
    /\ (variant \in Capped => iteration_count <= max_iterations)
    /\ (variant \notin Capped => model_calls < MaxModelCalls)

\* `while iteration_count < max_iterations:` / `while True:`
CanIterate ==
    /\ pc = "running"
    /\ (variant \in Capped => iteration_count < max_iterations)
    /\ (variant \notin Capped => model_calls < MaxModelCalls)

\* `iteration_count += 1` and the call of client.chat.completions.create
CallModel ==
    /\ iteration_count' = IF variant \in Capped THEN iteration_count + 1 ELSE iteration_count
    /\ model_calls' = model_calls + 1
    /\ UNCHANGED <<variant, gateway_outcome, normalized>>
    /\ UNCHANGED <<server_vars, gateway_vars>>

\* `continue`: back to the head of the loop
Continue == pc' = "running" /\ UNCHANGED <<result, http>>

\* `return` out of process_query into chat_endpoint, which builds the
\* response model from the value returned and answers the request
Return(r) ==
    /\ pc' = "done"
    /\ result' = r
    /\ http' \in ChatResponses(variant, r.value)

\* a variant of ModelCallFails that goes back to the head of the loop
ModelCallFailsRetried ==
    /\ pc = "running"
    /\ (variant \in Capped => iteration_count < max_iterations)
    /\ (variant \notin Capped => model_calls < MaxModelCalls)
    /\ iteration_count' = IF variant \in Capped THEN iteration_count + 1 ELSE iteration_count
    /\ model_calls' = model_calls + 1
    /\ reply' = NoReply
    /\ invocations' = <<>>
    /\ pc' = "running"
    /\ UNCHANGED <<variant, messages, actions_taken, result, http,
                   gateway_outcome, normalized, server_vars, gateway_vars>>

\* the model call raises (timeout, transport error)
ModelCallFails ==
    /\ CanIterate
    /\ CallModel
    /\ reply' = NoReply
    /\ invocations' = <<>>
    /\ UNCHANGED <<messages, actions_taken>>
    /\ Return(OuterHandler(variant, "APIError"))

\* the reply carries no content (message.content is None)
ReplyWithoutContent ==
    /\ CanIterate
    /\ CallModel
    /\ reply' = NoContentReply
    /\ invocations' = <<>>
    /\ messages' = IF variant \in Capped
                   THEN messages
                   ELSE Append(messages, AssistantMessage(NoContentReply))
    /\ UNCHANGED actions_taken
    /\ Return(OuterHandler(variant, "TypeError"))

\* a variant of ReplyNotJson that parses the reply before recording it
ReplyNotJsonUnrecorded ==
    /\ pc = "running"
    /\ (variant \in Capped => iteration_count < max_iterations)
    /\ (variant \notin Capped => model_calls < MaxModelCalls)
    /\ iteration_count' = IF variant \in Capped THEN iteration_count + 1 ELSE iteration_count
    /\ model_calls' = model_calls + 1
    /\ reply' = NotJsonReply
    /\ invocations' = <<>>
    /\ pc' = "done"
    /\ result' = ParseFailed(variant)
    /\ http' \in ChatResponses(variant, ParseFailed(variant).value)
    /\ UNCHANGED <<variant, messages, actions_taken, gateway_outcome, normalized,
                   server_vars, gateway_vars>>

\* the reply is not valid JSON
ReplyNotJson ==
    /\ CanIterate
    /\ CallModel
    /\ reply' = NotJsonReply
    /\ invocations' = <<>>
    /\ messages' = Append(messages, AssistantMessage(NotJsonReply))
    /\ UNCHANGED actions_taken
    /\ Return(ParseFailed(variant))

\* the reply is valid JSON but not an object: parsed_response.get fails
ReplyNotObject ==
    /\ CanIterate
    /\ CallModel
    /\ reply' = NotObjectReply
    /\ invocations' = <<>>
    /\ messages' = Append(messages, AssistantMessage(NotObjectReply))
    /\ UNCHANGED actions_taken
    /\ Return(OuterHandler(variant, "AttributeError"))

\* step == "plan"
StepPlan ==
    /\ CanIterate
    /\ CallModel
    /\ reply' = PlanReply
    /\ invocations' = <<>>
    /\ messages' = Append(messages, AssistantMessage(PlanReply))
    /\ UNCHANGED actions_taken
    /\ Continue

\* step == "action" and the function is a key of available_tools
StepActionInvoke ==
    /\ CanIterate
    /\ actions_taken < MaxActions
    /\ CallModel
    /\ \E name \in ToolNames(variant), input \in Inputs :
          LET r == Directive(Str("action"), Str(name), input, Absent) IN
          \E made \in Invocations(variant, name, Get(input)) :
                /\ reply' = r
                /\ invocations' = made
                /\ messages' = Append(Append(messages, AssistantMessage(r)),
                                      ToolObservation(variant, name, made[Len(made)].outcome))
    /\ actions_taken' = actions_taken + 1
    /\ Continue

\* step == "action" and the function is not a key of available_tools
StepActionUnknownTool ==
    /\ CanIterate
    /\ actions_taken < MaxActions
    /\ CallModel
    /\ \E function \in UnknownFunctions, input \in UninvokedInputs :
          LET r == Directive(Str("action"), function, input, Absent) IN
          /\ reply' = r
          /\ messages' = Append(Append(messages, AssistantMessage(r)),
                                UnknownToolObservation(variant, Get(function)))
    /\ invocations' = <<>>
    /\ actions_taken' = actions_taken + 1
    /\ Continue

\* step == "action" and the function is a list or an object:
\* `tool_name in available_tools` raises TypeError (unhashable type)
StepActionUnhashable ==
    /\ CanIterate
    /\ actions_taken < MaxActions
    /\ CallModel
    /\ \E function \in UnhashableFunctions, input \in UninvokedInputs :
          LET r == Directive(Str("action"), function, input, Absent) IN
          /\ reply' = r
          /\ messages' = Append(messages, AssistantMessage(r))
    /\ invocations' = <<>>
    /\ actions_taken' = actions_taken + 1
    /\ Return(OuterHandler(variant, "TypeError"))

\* step == "output"
StepOutput ==
    /\ CanIterate
    /\ CallModel
    /\ \E content \in Contents :
          LET r == Directive(Str("output"), Absent, Absent, content) IN
          /\ reply' = r
          /\ messages' = Append(messages, AssistantMessage(r))
          /\ Return(OutputResult(variant, content))
    /\ invocations' = <<>>
    /\ UNCHANGED actions_taken

\* any other step, or no step at all
StepOther ==
    /\ CanIterate
    /\ CallModel
    /\ \E step \in OtherSteps, content \in Contents :
          LET r == Directive(step, Absent, Absent, content) IN
          /\ reply' = r
          /\ messages' = Append(messages, AssistantMessage(r))
          /\ Return(OtherStepResult(variant, content))
    /\ invocations' = <<>>
    /\ UNCHANGED actions_taken

\* the while condition fails: "Max iterations reached"
MaxIterationsReached ==
    /\ pc = "running"
    /\ variant \in Capped
    /\ iteration_count >= max_iterations
    /\ Return(Fixed("max_iterations"))
    /\ UNCHANGED <<variant, iteration_count, model_calls, actions_taken,
                   messages, reply, invocations, gateway_outcome, normalized,
                   server_vars, gateway_vars>>

Next ==
    \/ ModelCallFails
    \/ ReplyWithoutContent
    \/ ReplyNotJson
    \/ ReplyNotObject
    \/ StepPlan
    \/ StepActionInvoke
    \/ StepActionUnknownTool
    \/ StepActionUnhashable
    \/ StepOutput
    \/ StepOther
    \/ MaxIterationsReached

Spec == Init /\ [][Next]_vars

----------------------------------------------------------------------------
(* The server: POST /chat, GET and DELETE /conversations/{id}              *)
(*                                                                         *)
(* Every route is an `async def` that awaits nothing but process_query,    *)
(* and process_query calls the model (the synchronous OpenAI client) and   *)
(* the backend (requests) without awaiting: a handler that has started     *)
(* runs to its end before the event loop starts another one.  A request is *)
(* in flight from the moment it is sent until it is answered.              *)

ServerInit ==
    /\ variant \in Variants
    /\ pc = "idle"
    /\ iteration_count = 0
    /\ model_calls = 0
    /\ actions_taken = 0
    /\ messages = <<>>
    /\ reply = NoReply
    /\ invocations = <<>>
    /\ result = NoResult
    /\ http = NoHttp
    /\ gateway_outcome = NoKeys
    /\ normalized = NotNormalized
    /\ ServerIdle
    /\ hr_client = IF variant = Basic THEN Str("fallback") ELSE Null
    /\ GatewayIdle

\* a variant of Idle for a handler that yields to the event loop while it
\* waits for the model
IdleOrSuspended == handling = NoHandling \/ pc = "running"

\* the event loop is free to start a handler
Idle == handling = NoHandling

\* the requests sent and not answered
RequestsInFlight == {slot \in RequestSlots : requests[slot].state = "in flight"}

\* A client that has no request in flight sends one.  The server reads a
\* request when the event loop is free, so a request sent while a handler
\* runs is followed from the moment the handler has ended.
Send(slot) ==
    /\ Idle
    /\ requests[slot] = NotSent
    /\ \A earlier \in RequestSlots : earlier < slot => requests[earlier] # NotSent
    /\ Cardinality(RequestsInFlight) < Cardinality(Clients)
    /\ \E request \in ChatRequests(variant) \cup ConversationRequests(variant) :
          requests' = [requests EXCEPT ![slot] = InFlight(request)]
    /\ UNCHANGED <<variant, pc, iteration_count, model_calls, actions_taken,
                   messages, reply, invocations, result, http, gateway_outcome,
                   normalized, conversations, hr_client, handling, answer,
                   gateway_vars>>

\* The credential a /chat request runs with: the token of its header, or
\* what the fallback login returns; ok when the handler goes on.
Credentials(v, authorization) ==
    LET token == extract_token_from_header(authorization) IN
    IF v = Basic
    THEN {[ok |-> TRUE, token |-> hr_client, login |-> Absent]}
    ELSE IF Truthy(token)
    THEN {[ok |-> TRUE, token |-> token, login |-> Absent]}
    ELSE {[ok |-> IsStr(fallback_token), token |-> fallback_token,
           login |-> fallback_token] : fallback_token \in LoginResults}

\* a variant of Opened that puts the prompt in front of every turn
OpenedWithPrompt(store, id) ==
    IF id \notin DOMAIN store
    THEN <<Message("system", SystemPrompt)>>
    ELSE Append(store[id], Message("system", SystemPrompt))

\* `if conversation_id not in conversations:` create it with the prompt
Opened(store, id) ==
    IF id \notin DOMAIN store
    THEN <<Message("system", SystemPrompt)>>
    ELSE store[id]

\* the locals of process_query as the call starts
StartProcessQuery ==
    /\ pc' = "running"
    /\ iteration_count' = 0
    /\ model_calls' = 0
    /\ actions_taken' = 0
    /\ reply' = NoReply
    /\ invocations' = <<>>
    /\ result' = NoResult
    /\ http' = NoHttp

\* a variant of ChatBegin that sets the token of the shared client once
ChatBeginKeepingToken(slot) ==
    /\ Idle
    /\ requests[slot].state = "in flight"
    /\ requests[slot].request.kind = "chat"
    /\ LET request == requests[slot].request
           id == request.conversation_id
           transcript == Append(Opened(conversations, id), Message("user", UserQuery))
       IN \E credential \in Credentials(variant, request.authorization) :
             /\ credential.ok
             /\ hr_client' = IF hr_client = Null THEN credential.token ELSE hr_client
             /\ conversations' = Stored(conversations, id, transcript)
             /\ messages' = transcript
             /\ handling' = Handling(slot, request, credential.token, credential.login)
    /\ StartProcessQuery
    /\ UNCHANGED <<variant, gateway_outcome, normalized, requests, answer,
                   gateway_vars>>

\* chat_endpoint up to the call of process_query
ChatBegin(slot) ==
    /\ Idle
    /\ requests[slot].state = "in flight"
    /\ requests[slot].request.kind = "chat"
    /\ LET request == requests[slot].request
           id == request.conversation_id
           transcript == Append(Opened(conversations, id), Message("user", UserQuery))
       IN \E credential \in Credentials(variant, request.authorization) :
             /\ credential.ok
             /\ hr_client' = credential.token
             /\ conversations' = Stored(conversations, id, transcript)
             /\ messages' = transcript
             /\ handling' = Handling(slot, request, credential.token, credential.login)
    /\ StartProcessQuery
    /\ UNCHANGED <<variant, gateway_outcome, normalized, requests, answer,
                   gateway_vars>>

\* chat_endpoint raising HTTPException(status_code=401)
ChatRejected(slot) ==
    /\ Idle
    /\ requests[slot].state = "in flight"
    /\ requests[slot].request.kind = "chat"
    /\ LET request == requests[slot].request
       IN \E credential \in Credentials(variant, request.authorization) :
             /\ ~credential.ok
             /\ answer' = Answer(request, 401, <<>>, credential.login)
    /\ requests' = [requests EXCEPT ![slot] = Answered]
    /\ UNCHANGED <<variant, pc, iteration_count, model_calls, actions_taken,
                   messages, reply, invocations, result, http, gateway_outcome,
                   normalized, conversations, hr_client, handling, gateway_vars>>

\* the handler has returned: its locals are gone
EndProcessQuery ==
    /\ pc' = "idle"
    /\ iteration_count' = 0
    /\ model_calls' = 0
    /\ actions_taken' = 0
    /\ messages' = <<>>
    /\ reply' = NoReply
    /\ invocations' = <<>>
    /\ result' = NoResult
    /\ http' = NoHttp

\* `conversations[conversation_id] = messages` is reached
StoresTranscript == variant # Unified \/ HasLen(result.value)

\* a variant of ChatEnd that keeps the turn only when it was answered
ChatEndDroppingFailedTurn ==
    /\ handling # NoHandling
    /\ pc = "done"
    /\ LET id == handling.request.conversation_id
       IN conversations' = IF result.kind # "max_iterations"
                           THEN Stored(conversations, id, messages)
                           ELSE conversations
    /\ answer' = Answer(handling.request, http.status, <<>>, handling.login)
    /\ requests' = [requests EXCEPT ![handling.slot] = Answered]
    /\ handling' = NoHandling
    /\ EndProcessQuery
    /\ UNCHANGED <<variant, gateway_outcome, normalized, hr_client, gateway_vars>>

\* chat_endpoint after process_query returned.  messages is the list the
\* store holds, so what process_query appended is in the store whether or
\* not the assignment is reached.
ChatEnd ==
    /\ handling # NoHandling
    /\ pc = "done"
    /\ LET id == handling.request.conversation_id
       IN conversations' = IF StoresTranscript \/ id \in DOMAIN conversations
                           THEN Stored(conversations, id, messages)
                           ELSE conversations
    /\ answer' = Answer(handling.request, http.status, <<>>, handling.login)
    /\ requests' = [requests EXCEPT ![handling.slot] = Answered]
    /\ handling' = NoHandling
    /\ EndProcessQuery
    /\ UNCHANGED <<variant, gateway_outcome, normalized, hr_client, gateway_vars>>

\* get_conversation
GetConversation(slot) ==
    /\ Idle
    /\ requests[slot].state = "in flight"
    /\ requests[slot].request.kind = "get"
    /\ LET request == requests[slot].request
           id == request.conversation_id
       IN answer' = IF id \notin DOMAIN conversations
                    THEN Answer(request, 404, <<>>, Absent)
                    ELSE Answer(request, 200, conversations[id], Absent)
    /\ requests' = [requests EXCEPT ![slot] = Answered]
    /\ UNCHANGED <<variant, pc, iteration_count, model_calls, actions_taken,
                   messages, reply, invocations, result, http, gateway_outcome,
                   normalized, conversations, hr_client, handling, gateway_vars>>

\* a variant of DeleteConversation that tolerates an id that is not stored
DeleteConversationLenient(slot) ==
    /\ Idle
    /\ requests[slot].state = "in flight"
    /\ requests[slot].request.kind = "delete"
    /\ LET request == requests[slot].request
           id == request.conversation_id
       IN /\ answer' = Answer(request, 200, <<>>, Absent)
          /\ conversations' = Without(conversations, id)
    /\ requests' = [requests EXCEPT ![slot] = Answered]
    /\ UNCHANGED <<variant, pc, iteration_count, model_calls, actions_taken,
                   messages, reply, invocations, result, http, gateway_outcome,
                   normalized, hr_client, handling, gateway_vars>>

\* a variant of DeleteConversation that runs while a /chat handler waits
DeleteConversationWhileServing(slot) ==
    /\ requests[slot].state = "in flight"
    /\ requests[slot].request.kind = "delete"
    /\ pc # "done"
    /\ LET request == requests[slot].request
           id == request.conversation_id
       IN IF id \notin DOMAIN conversations
          THEN /\ answer' = Answer(request, 404, <<>>, Absent)
               /\ UNCHANGED conversations
          ELSE /\ answer' = Answer(request, 200, <<>>, Absent)
               /\ conversations' = Without(conversations, id)
    /\ requests' = [requests EXCEPT ![slot] = Answered]
    /\ UNCHANGED <<variant, pc, iteration_count, model_calls, actions_taken,
                   messages, reply, invocations, result, http, gateway_outcome,
                   normalized, hr_client, handling, gateway_vars>>

\* delete_conversation
DeleteConversation(slot) ==
    /\ Idle
    /\ requests[slot].state = "in flight"
    /\ requests[slot].request.kind = "delete"
    /\ LET request == requests[slot].request
           id == request.conversation_id
       IN IF id \notin DOMAIN conversations
          THEN /\ answer' = Answer(request, 404, <<>>, Absent)
               /\ UNCHANGED conversations
          ELSE /\ answer' = Answer(request, 200, <<>>, Absent)
               /\ conversations' = Without(conversations, id)
    /\ requests' = [requests EXCEPT ![slot] = Answered]
    /\ UNCHANGED <<variant, pc, iteration_count, model_calls, actions_taken,
                   messages, reply, invocations, result, http, gateway_outcome,
                   normalized, hr_client, handling, gateway_vars>>

\* process_query runs for the request being handled
Serving == handling # NoHandling

\* Under the server the model names a tool in its first reply and answers in
\* its second, or it plans until the loop ends the turn.
ServePlan == Serving /\ actions_taken = 0 /\ StepPlan

ServeAction ==
    /\ Serving
    /\ model_calls = 0
    /\ StepActionInvoke
    /\ reply'.function \in {Str("get_all_employees"), Str("get_all_employee")}
    /\ reply'.input = Absent
    /\ ~Failed(invocations'[Len(invocations')].outcome)

ServeOutput ==
    /\ Serving
    /\ actions_taken > 0
    /\ StepOutput
    /\ reply'.content = Str("Today is 2025-01-01.")

ServeMaxIterations == Serving /\ MaxIterationsReached

ServerNext ==
    \/ \E slot \in RequestSlots : Send(slot)
    \/ \E slot \in RequestSlots : ChatBegin(slot)
    \/ \E slot \in RequestSlots : ChatRejected(slot)
    \/ ServePlan
    \/ ServeAction
    \/ ServeOutput
    \/ ServeMaxIterations
    \/ ChatEnd
    \/ \E slot \in RequestSlots : GetConversation(slot)
    \/ \E slot \in RequestSlots : DeleteConversation(slot)

ServerSpec == ServerInit /\ [][ServerNext]_vars

----------------------------------------------------------------------------
(* The error normalizers applied to a gateway outcome                      *)

NormalizerInit ==
    /\ variant = Unified
    /\ pc = "done"
    /\ iteration_count = 0
    /\ model_calls = 0
    /\ actions_taken = 0
    /\ messages = <<>>
    /\ reply = NoReply
    /\ invocations = <<>>
    /\ result = NoResult
    /\ http = NoHttp
    /\ gateway_outcome \in NormalizerInputs
    /\ normalized = NotNormalized
    /\ ServerIdle
    /\ hr_client = Null
    /\ GatewayIdle

\* utils.handle_api_response(gateway_outcome, operation)
NormalizeByUtils ==
    /\ normalized = NotNormalized
    /\ normalized' = Normalized("utils.py", utils_handle_api_response(gateway_outcome))
    /\ UNCHANGED <<variant, pc, iteration_count, model_calls, actions_taken,
                   messages, reply, invocations, result, http, gateway_outcome,
                   server_vars, gateway_vars>>

\* hr_functions.handle_api_response(gateway_outcome, function_name)
NormalizeByFunctions ==
    /\ normalized = NotNormalized
    /\ normalized' = Normalized("hr_functions.py", handle_api_response(gateway_outcome))
    /\ UNCHANGED <<variant, pc, iteration_count, model_calls, actions_taken,
                   messages, reply, invocations, result, http, gateway_outcome,
                   server_vars, gateway_vars>>

NormalizerNext ==
    \/ NormalizeByUtils
    \/ NormalizeByFunctions

NormalizerSpec == NormalizerInit /\ [][NormalizerNext]_vars

----------------------------------------------------------------------------
(* One gateway call: _make_request under the retry_on_failure wrapper      *)

\* The wrapper: `for attempt in range(max_retries)` calls the function and
\* returns what it returns; an exception leads to the next attempt, and the
\* last one is raised again.  events[i] is what the backend does to the
\* i-th HTTP attempt.
RECURSIVE retry_on_failure(_, _)
retry_on_failure(attempt, events) ==
    LET outcome == _make_request(events[attempt + 1]) IN
    IF IsRaised(outcome) /\ attempt < max_retries - 1
    THEN retry_on_failure(attempt + 1, events)
    ELSE [outcome |-> outcome, attempts |-> attempt + 1]

GatewayInit ==
    /\ variant = Simplified
    /\ pc = "idle"
    /\ iteration_count = 0
    /\ model_calls = 0
    /\ actions_taken = 0
    /\ messages = <<>>
    /\ reply = NoReply
    /\ invocations = <<>>
    /\ result = NoResult
    /\ http = NoHttp
    /\ gateway_outcome = NoKeys
    /\ normalized = NotNormalized
    /\ ServerIdle
    /\ hr_client = Null
    /\ backend \in [1..max_retries -> BackendEvents]
    /\ http_attempts = 0

\* hr_client._make_request(method, endpoint, ...) as the tools call it
MakeRequest ==
    /\ http_attempts = 0
    /\ LET call == retry_on_failure(0, backend) IN
          /\ gateway_outcome' = call.outcome
          /\ http_attempts' = call.attempts
    /\ UNCHANGED <<variant, pc, iteration_count, model_calls, actions_taken,
                   messages, reply, invocations, result, http, normalized,
                   server_vars, backend>>

GatewayNext == MakeRequest

GatewaySpec == GatewayInit /\ [][GatewayNext]_vars

----------------------------------------------------------------------------
(* Properties                                                              *)

Last(s) == s[Len(s)]

\* the step just taken was one loop iteration (it called the model)
Iterated == model_calls' = model_calls + 1

RegisteredNames == {Str(n) : n \in ToolNames(variant)}

IsActionDirective(r) == r.raw = "object" /\ Get(r.step) = Str("action")
IsOutputDirective(r) == r.raw = "object" /\ Get(r.step) = Str("output")

\* C1: one call of process_query makes at most max_iterations (10) model
\* calls, in every variant of the loop: no variant iterates without bound.
C1_BoundedModelCalls == model_calls <= max_iterations

\* C2: in the capped variants, an iteration whose tool invocation raises
\* does not end the turn: it appends the assistant message and exactly one
\* error observation "Tool execution failed for <name>: <msg>", returns
\* nothing and leaves control at the head of the loop.
C2_ToolExceptionContained ==
    [][(/\ variant \in Capped
        /\ Iterated
        /\ invocations' # <<>>
        /\ IsRaised(invocations'[1].outcome))
       => /\ pc' = "running"
          /\ result' = NoResult
          /\ Len(messages') = Len(messages) + 2
          /\ SubSeq(messages', 1, Len(messages)) = messages
          /\ messages'[Len(messages) + 1].role = "assistant"
          /\ LET obs == messages'[Len(messages) + 2] IN
             /\ IsObservation(obs)
             /\ obs.content.key = "error"
             /\ obs.content.body.template = "Tool execution failed for <name>: <msg>"
             /\ obs.content.body.name = Str(invocations'[1].tool)
             /\ obs.content.body.exc = invocations'[1].outcome.raised]_vars

\* a later model call was made on a transcript holding the error observation
C2_Witness ==
    /\ variant \in Capped
    /\ \E i \in 1..(Len(messages) - 1) :
          /\ IsObservation(messages[i])
          /\ messages[i].content.key = "error"
          /\ "template" \in DOMAIN messages[i].content.body
          /\ messages[i].content.body.template = "Tool execution failed for <name>: <msg>"
          /\ messages[i + 1].role = "assistant"

\* C3: after an action directive whose function is not a key of the registry
\* (or is missing), the turn has not ended because of it, and the last
\* message of the transcript is one observation that reports the failure and
\* lists the valid tool names.
C3_UnknownToolObservationListsTools ==
    (/\ IsActionDirective(reply)
     /\ Hashable(Get(reply.function))
     /\ Get(reply.function) \notin RegisteredNames)
    => /\ result.kind \in {"none", "max_iterations"}
       /\ IsObservation(Last(messages))
       /\ Last(messages).content.key = "error"
       /\ Last(messages).content.body.names = ToolNames(variant)
       /\ messages[Len(messages) - 1].role = "assistant"

\* C4: after an output directive (with a content field) process_query has
\* returned exactly that content, and the assistant message holding the
\* directive is the last message of the transcript.
C4_OutputReturnsContent ==
    (IsOutputDirective(reply) /\ reply.content # Absent)
    => /\ pc = "done"
       /\ result.kind = "output"
       /\ result.value = reply.content
       /\ Last(messages).role = "assistant"
       /\ Last(messages).content.content = reply.content

AllPlans ==
    \A i \in 3..Len(messages) :
        /\ messages[i].role = "assistant"
        /\ messages[i].content.raw = "object"
        /\ messages[i].content.step = Str("plan")

\* C5: in the capped variants, once the model has replied with 10 plan
\* directives in a row, 10 model calls have been made and the only step left
\* is to return the max-iterations message: no 11th model call is made.
C5_TenPlansHitTheCap ==
    [][(/\ variant \in Capped
        /\ AllPlans
        /\ Len(messages) = 2 + max_iterations)
       => /\ model_calls = max_iterations
          /\ model_calls' = model_calls
          /\ messages' = messages
          /\ pc' = "done"
          /\ result'.kind = "max_iterations"]_vars

C5_Witness ==
    /\ variant \in Capped
    /\ AllPlans
    /\ Len(messages) = 2 + max_iterations
    /\ model_calls = max_iterations
    /\ pc = "done"
    /\ result.kind = "max_iterations"

\* C6: in the capped variants, after a reply that is not valid JSON, or that
\* is valid JSON but not an object, process_query has returned the "invalid
\* response format" message.
C6_MalformedReplyInvalidFormat ==
    (variant \in Capped /\ reply.raw \in {"not_json", "not_object"})
    => /\ pc = "done"
       /\ result.kind = "invalid_format"

\* the messages the step appended, given that it only appended
Appended == SubSeq(messages', Len(messages) + 1, Len(messages'))

AppendOnly ==
    /\ Len(messages') >= Len(messages)
    /\ SubSeq(messages', 1, Len(messages)) = messages

\* the step appended one assistant message holding the reply it handled and
\* after it at most one observation
OneAssistantAtMostOneObservation ==
    /\ Len(Appended) \in {1, 2}
    /\ Appended[1].role = "assistant"
    /\ Appended[1].content.kind = "reply"
    /\ Appended[1].content.raw = reply'.raw
    /\ Appended[1].content.step = reply'.step
    /\ Appended[1].content.function = reply'.function
    /\ Appended[1].content.content = reply'.content
    /\ (Len(Appended) = 2 => IsObservation(Appended[2]))

\* the model call of the step produced a reply with a text content
GotReply == reply'.raw \notin {"no_reply", "none"}

\* C7 as stated: in the capped variants every loop iteration appends exactly
\* one assistant message holding the raw reply and at most one observation,
\* and no step removes, reorders or changes a message.
C7_EveryIterationAppendsAssistant ==
    [][(variant \in Capped)
       => /\ AppendOnly
          /\ (Iterated => OneAssistantAtMostOneObservation)
          /\ (~Iterated => (messages' = messages))]_vars

\* C7 amended: in the capped variants every loop iteration whose model call
\* returns a reply with a text content appends exactly one assistant message
\* holding the raw reply and at most one observation; an iteration whose
\* model call fails or whose reply has no content appends nothing; no step
\* removes, reorders or changes a message.
C7_IterationWithReplyAppendsAssistant ==
    [][(variant \in Capped)
       => /\ AppendOnly
          /\ ((Iterated /\ GotReply) => OneAssistantAtMostOneObservation)
          /\ ((Iterated /\ ~GotReply) => (messages' = messages))
          /\ (~Iterated => (messages' = messages))]_vars

\* a reply that failed to parse is the last message of the transcript
C7_Witness ==
    /\ variant \in Capped
    /\ reply.raw = "not_json"
    /\ pc = "done"
    /\ Len(messages) > 3
    /\ Last(messages).role = "assistant"
    /\ Last(messages).content.raw = "not_json"
    /\ \E i \in 3..Len(messages) : IsObservation(messages[i])

\* the mapping an input stands for: a JSON object, or the JSON text of one
IsMapping(x) ==
    \/ x.t = "dict" /\ Len(x.v) >= 1
    \/ x.t = "str" /\ StartsWithBrace(x.v) /\ JsonLoads(x.v) # JSONDecodeError

MappingPairs(x) == IF x.t = "dict" THEN x.v ELSE JsonLoads(x.v).v

\* C8: in the capped variants a registered tool whose directive carries a
\* mapping is invoked once: with one key, on that key's value; with two
\* keys, on both values in insertion order; with more keys, on the mapping
\* expanded as named arguments.
C8_MappingInputResolution ==
    (/\ variant \in Capped
     /\ IsActionDirective(reply)
     /\ invocations # <<>>
     /\ IsMapping(reply.input))
    => LET pairs == MappingPairs(reply.input)
           call == invocations[1].call
       IN /\ Len(invocations) = 1
          /\ (Len(pairs) = 1 => (call.args = <<pairs[1][2]>> /\ call.kwargs = <<>>))
          /\ (Len(pairs) = 2 => (call.args = <<pairs[1][2], pairs[2][2]>> /\ call.kwargs = <<>>))
          /\ (Len(pairs) > 2 => (call.args = <<>> /\ call.kwargs = pairs))

\* a string, number or boolean that is not the JSON text of a mapping
IsScalar(x) == x.t \in {"str", "num", "bool"} /\ ~IsMapping(x)

\* C9: in the capped variants a registered tool whose directive carries a
\* bare scalar is invoked once, on that value as its single positional
\* argument.
C9_ScalarInputPositional ==
    (/\ variant \in Capped
     /\ IsActionDirective(reply)
     /\ invocations # <<>>
     /\ IsScalar(reply.input))
    => /\ Len(invocations) = 1
       /\ invocations[1].call.args = <<reply.input>>
       /\ invocations[1].call.kwargs = <<>>

\* the reply is an action directive on a registered tool, without input
IsActionWithoutInput(r) ==
    /\ IsActionDirective(r)
    /\ Get(r.function) \in RegisteredNames
    /\ Get(r.input) = Null

\* C10: an iteration whose reply is an action directive that names a
\* registered tool and has no input invokes the tool once with zero
\* arguments and appends one observation after the assistant message; when
\* it is the first iteration and the next reply is an output directive,
\* that iteration returns the directive's content after 2 model calls.
C10_NoInputThenOutput ==
    [][/\ (Iterated /\ IsActionWithoutInput(reply'))
          => /\ Len(invocations') = 1
             /\ invocations'[1].call.args = <<>>
             /\ invocations'[1].call.kwargs = <<>>
             /\ Len(messages') = Len(messages) + 2
             /\ IsObservation(Last(messages'))
             /\ Last(messages').content.key \in {"output", "error"}
             /\ messages'[Len(messages') - 1].role = "assistant"
       /\ (/\ IsActionWithoutInput(reply)
           /\ model_calls = 1
           /\ Iterated
           /\ IsOutputDirective(reply')
           /\ reply'.content # Absent)
          => /\ pc' = "done"
             /\ model_calls' = 2
             /\ Len(messages') = 5
             /\ result'.kind = "output"
             /\ result'.value = reply'.content]_vars

\* C11: one action directive makes at most one invocation, of the tool it
\* names: whether the invocation returns a success, returns a failure or
\* raises, the loop does not invoke the tool again for that directive.
C11_AtMostOneInvocationPerDirective ==
    /\ Len(invocations) <= 1
    /\ (invocations # <<>>)
       => /\ IsActionDirective(reply)
          /\ Str(invocations[1].tool) = reply.function

\* an invocation on a decoded input has raised and was the only one
C11_Witness ==
    /\ variant \in Capped
    /\ Len(invocations) = 1
    /\ IsRaised(invocations[1].outcome)
    /\ DecodedInput(Get(reply.input))
    /\ IsObservation(Last(messages))

\* C12: whatever the model replied and the tools returned or raised, once
\* process_query has returned POST /chat answers with status 200 and a
\* string response.
C12_ChatAnswersWithString ==
    (pc = "done")
    => /\ http.status = 200
       /\ http.response.t = "str"

\* the messages of the handler around the loop body
HandlerMessages == {"unexpected_error", "processing_error", "trouble"}

C14_NoExceptionTextReturned == result.exc = ""

\* the step of a directive is none of plan, action, output
IsOtherDirective(r) ==
    r.raw = "object" /\ Get(r.step) \notin {Str("plan"), Str("action"), Str("output")}

\* the generic messages of the final else branch
CouldNotProcess == {DefaultUnknownStep, UnknownStepText, DefaultIssue}

\* C15: after a directive whose step is none of plan, action, output (or is
\* missing) process_query has returned: the directive's content when it has
\* a content field, otherwise a generic message.
C15_OtherStepReturnsContent ==
    IsOtherDirective(reply)
    => /\ pc = "done"
       /\ (reply.content # Absent) => (result.value = reply.content)
       /\ (reply.content = Absent) => (result.value \in CouldNotProcess)

\* the gateway call of the last invocation ended in a classified error
GatewayFailed ==
    /\ invocations # <<>>
    /\ invocations[1].gateway # Absent
    /\ invocations[1].gateway.success = Bool(FALSE)

\* C16: in the capped variants, a gateway call that ends in a classified
\* error reaches the loop as a returned outcome with success false and a
\* user_message, and the observation appended carries that user_message.
C16_BackendErrorHasUserMessage ==
    (variant \in Capped /\ GatewayFailed)
    => LET outcome == invocations[1].outcome IN
       /\ ~IsRaised(outcome)
       /\ outcome.success = Bool(FALSE)
       /\ outcome.user_message # Absent
       /\ IsObservation(Last(messages))
       /\ Last(messages).content.body = outcome.user_message

\* the last invocation returned a failure
ReturnedFailure ==
    /\ invocations # <<>>
    /\ ~IsRaised(invocations[1].outcome)
    /\ Failed(invocations[1].outcome)

ErrorMessage(outcome) ==
    IF outcome.message # Absent THEN outcome.message ELSE outcome.error

Duality(outcome) ==
    /\ outcome.success \in {Bool(TRUE), Bool(FALSE)}
    /\ (outcome.success = Bool(TRUE))
       => (outcome.data # Absent /\ ErrorMessage(outcome) = Absent)
    /\ (outcome.success = Bool(FALSE))
       => (ErrorMessage(outcome) # Absent /\ outcome.data = Absent)

\* C18: in the capped variants, what a gateway call answered and what a
\* tool returned has a boolean success, with success true has a data key
\* and no error message, and with success false has an error message and no
\* data key.
C18_EnvelopeDuality ==
    (variant \in Capped)
    => \A i \in 1..Len(invocations) :
          /\ (invocations[i].gateway # Absent) => Duality(invocations[i].gateway)
          /\ (~IsRaised(invocations[i].outcome)) => Duality(invocations[i].outcome)

\* a formatter has turned a successful gateway answer into a failure
C18_Witness ==
    /\ variant = Simplified
    /\ Len(invocations) = 1
    /\ invocations[1].gateway # Absent
    /\ invocations[1].gateway.success = Bool(TRUE)
    /\ ~IsRaised(invocations[1].outcome)
    /\ invocations[1].outcome.success = Bool(FALSE)

\* C19: what SimplifiedHRClient._make_request answers has a boolean success,
\* and with success false it has a message, a status_code and an error
\* kind of the closed set.
C19_UniformGatewayEnvelope ==
    (variant = Simplified /\ invocations # <<>> /\ invocations[1].gateway # Absent)
    => LET envelope == invocations[1].gateway IN
       /\ envelope.success \in {Bool(TRUE), Bool(FALSE)}
       /\ (envelope.success = Bool(FALSE))
          => /\ envelope.message # Absent
             /\ envelope.status_code # Absent
             /\ envelope.error_type \in {Str(k) : k \in ErrorKinds}

\* what the normalizer that ran makes of an outcome
NormalizedBy(by, outcome) ==
    IF by = "utils.py" THEN utils_handle_api_response(outcome)
    ELSE handle_api_response(outcome)

\* the template the normalizer that ran uses for an outcome of another kind
TemplateFor(kind) ==
    NormalizedBy(normalized.by,
                 [gateway_outcome EXCEPT !.error_type = Str(kind)]).user_message.v

\* C20: an error normalizer maps a failed outcome of any kind, recognized or
\* not, to a result with success false and a non-empty user_message; the
\* template of each of the eight kinds is used for no other kind.
C20_NormalizerTotalWithOwnTemplates ==
    (normalized # NotNormalized /\ gateway_outcome.success = Bool(FALSE))
    => /\ normalized.out.success = Bool(FALSE)
       /\ normalized.out.user_message # Absent
       /\ normalized.out.user_message.t = "str"
       /\ normalized.out.user_message.v # ""
       /\ \A kind \in ErrorKinds :
             (gateway_outcome.error_type = Str(kind))
             => \A other \in (ErrorKinds \cup {"rate_limit_error"}) \ {kind} :
                   TemplateFor(other) # normalized.out.user_message.v

\* the first HTTP attempt of the gateway call failed transiently
TransientFailure == backend[1] \in {"Timeout", "ConnectionError"}

\* C26: a gateway call whose HTTP attempt times out or cannot connect makes
\* a second HTTP attempt, and never more than max_retries attempts in all.
C26_TransientFailureRetried ==
    http_attempts > 0
    => /\ http_attempts <= max_retries
       /\ TransientFailure => http_attempts = 2

\* the tenth iteration of a capped variant is being made
TenthIteration ==
    /\ variant \in Capped
    /\ pc = "running"
    /\ iteration_count = max_iterations - 1
    /\ Iterated

\* C27: when the first nine replies of a turn were plan or action
\* directives and the tenth reply is an output directive (with a content
\* field), process_query returns that content, not the max-iterations
\* message.
C27_CapKeepsFinalAnswer ==
    [][(TenthIteration /\ IsOutputDirective(reply') /\ reply'.content # Absent)
       => /\ pc' = "done"
          /\ result'.kind = "output"
          /\ result'.value = reply'.content]_vars

----------------------------------------------------------------------------
(* Properties of the server                                                *)

\* the handler of a /chat request on conversation id has just started
ChatStarted(id) ==
    /\ handling = NoHandling
    /\ handling' # NoHandling
    /\ handling'.request.conversation_id = id

\* the prompt first, then user and assistant messages only
WellFormed(transcript) ==
    /\ Len(transcript) >= 1
    /\ transcript[1] = Message("system", SystemPrompt)
    /\ \A i \in 2..Len(transcript) : transcript[i].role \in {"user", "assistant"}

\* C21: every stored conversation begins with the system prompt and holds no
\* other system message, only user and assistant messages; a conversation
\* comes into the store when a /chat handler starts on an id that is not
\* stored, as the prompt followed by the user's message; the first message
\* of a stored conversation is not changed by any step.
C21_OneSystemMessageFirst ==
    [][\A id \in ConversationIds :
          /\ id \in DOMAIN conversations' => WellFormed(conversations'[id])
          /\ (Serving /\ handling.request.conversation_id = id) => WellFormed(messages)
          /\ (id \notin DOMAIN conversations /\ id \in DOMAIN conversations')
             => /\ ChatStarted(id)
                /\ conversations'[id] = <<Message("system", SystemPrompt),
                                          Message("user", UserQuery)>>
          /\ (id \in DOMAIN conversations /\ id \in DOMAIN conversations')
             => conversations'[id][1] = conversations[id][1]]_vars

\* a conversation that went through two turns, one of them with a tool
C21_Witness ==
    \E id \in DOMAIN conversations :
       LET transcript == conversations[id] IN
       /\ Cardinality({i \in 1..Len(transcript) :
                          transcript[i].role = "user"
                          /\ transcript[i].content.kind = "query"}) >= 2
       /\ \E i \in 1..Len(transcript) : IsObservation(transcript[i])
       /\ \E i \in 1..Len(transcript) : transcript[i].role = "assistant"

\* transcript t begins with transcript s
StartsWith(t, s) == Len(s) <= Len(t) /\ SubSeq(t, 1, Len(s)) = s

\* the handler of a turn that ended at the iteration cap returns
CapTurnEnds ==
    /\ handling # NoHandling
    /\ handling' = NoHandling
    /\ result.kind = "max_iterations"

\* C22: when the handler of a turn that ended at the iteration cap returns,
\* the stored transcript is the one the turn started from followed by the
\* ten messages of the turn; the handler of a later /chat on a stored id
\* starts from the stored transcript plus its user message with the
\* iteration counter at zero, and it meets the cap only after ten
\* iterations of its own.
C22_CapKeepsTranscriptFreshBudget ==
    [][LET current == handling.request.conversation_id IN
       /\ CapTurnEnds
          => /\ current \in DOMAIN conversations'
             /\ conversations'[current] = messages
             /\ StartsWith(conversations'[current], conversations[current])
             /\ Len(conversations'[current]) = Len(conversations[current]) + max_iterations
       /\ \A id \in DOMAIN conversations :
             ChatStarted(id)
             => /\ messages' = Append(conversations[id], Message("user", UserQuery))
                /\ conversations'[id] = messages'
                /\ iteration_count' = 0
       /\ (Serving /\ pc = "running" /\ result'.kind = "max_iterations")
          => /\ iteration_count = max_iterations
             /\ Len(messages) = Len(conversations[current]) + max_iterations]_vars

\* a second turn on one conversation that has used its ten iterations after
\* the first turn ended at the cap
C22_Witness ==
    /\ Serving
    /\ iteration_count = max_iterations
    /\ Len(messages) = 3 + 2 * max_iterations
    /\ messages[2 + max_iterations].content.kind = "reply"
    /\ messages[3 + max_iterations].content.kind = "query"

\* the request in `slot`, of the given kind, has just been answered
JustAnswered(slot, kind) ==
    /\ requests[slot].state = "in flight"
    /\ requests[slot].request.kind = kind
    /\ requests'[slot] = Answered

\* C23: GET /conversations/{id} answers 200 with the stored transcript of a
\* stored id and 404 for any other id, and changes nothing in the store;
\* DELETE /conversations/{id} answers 200 for a stored id and removes that
\* conversation alone, and answers 404 and changes nothing for an id that
\* is not stored.
C23_GetAndDeleteConversation ==
    [][\A slot \in RequestSlots :
          LET request == requests[slot].request
              id == request.conversation_id
          IN /\ JustAnswered(slot, "get")
                => /\ answer'.to = request
                   /\ conversations' = conversations
                   /\ IF id \in DOMAIN conversations
                      THEN answer'.status = 200 /\ answer'.body = conversations[id]
                      ELSE answer'.status = 404
             /\ JustAnswered(slot, "delete")
                => /\ answer'.to = request
                   /\ IF id \in DOMAIN conversations
                      THEN /\ answer'.status = 200
                           /\ DOMAIN conversations' = DOMAIN conversations \ {id}
                           /\ \A other \in DOMAIN conversations' :
                                 conversations'[other] = conversations[other]
                      ELSE /\ answer'.status = 404
                           /\ conversations' = conversations]_vars

\* a stored conversation has been deleted and another one is still stored
C23_Witness ==
    /\ answer.to.kind = "delete"
    /\ answer.status = 200
    /\ answer.to.conversation_id \notin DOMAIN conversations
    /\ DOMAIN conversations # {}

\* the step has changed the store's entry of the conversation id
Changed(id) ==
    \/ (id \in DOMAIN conversations) # (id \in DOMAIN conversations')
    \/ /\ id \in DOMAIN conversations
       /\ id \in DOMAIN conversations'
       /\ conversations'[id] # conversations[id]

\* the step was taken by the handler of a request on the conversation id
HandlerStepOn(id) ==
    \/ handling # NoHandling /\ handling.request.conversation_id = id
    \/ ChatStarted(id)
    \/ \E slot \in RequestSlots, kind \in {"chat", "get", "delete"} :
          JustAnswered(slot, kind) /\ requests[slot].request.conversation_id = id

\* C24: whatever requests are in flight, a step that adds, removes or
\* changes the stored conversation of an id is a step of the handler of a
\* request on that id: a /chat, GET or DELETE on conversation A leaves every
\* other conversation as it was.
C24_ConversationsIndependent ==
    [][\A id \in ConversationIds : Changed(id) => HandlerStepOn(id)]_vars

\* a /chat on one conversation is handled while another conversation is
\* stored and a request on that other conversation is in flight
C24_Witness ==
    /\ Serving
    /\ model_calls > 0
    /\ \E slot \in RequestsInFlight :
          LET other == requests[slot].request.conversation_id IN
          /\ other # handling.request.conversation_id
          /\ other \in DOMAIN conversations

\* another /chat request on the conversation being handled is in flight
RivalsInFlight ==
    {slot \in RequestsInFlight :
        /\ slot # handling.slot
        /\ requests[slot].request.kind = "chat"
        /\ requests[slot].request.conversation_id = handling.request.conversation_id}

\* the handler is between two model calls of process_query
BetweenModelCalls == Serving /\ pc = "running" /\ model_calls > 0

\* C25 as stated: while the handler of a /chat request is at a model-call
\* boundary, the handler of another /chat request in flight on the same
\* conversation id can start, so that the two interleave their appends.
C25_ConcurrentTurnsInterleave ==
    BetweenModelCalls => \A slot \in RivalsInFlight : ENABLED ChatBegin(slot)

\* C25 as amended: two /chat requests in flight on one conversation id are
\* handled one after the other.  While a handler runs no other handler
\* starts and no other request is answered; a handler starts from the whole
\* stored transcript plus its user message, and when it returns the stored
\* transcript is that transcript followed by the messages of its turn.
C25_TurnsAreSerialised ==
    [][/\ Serving
          => /\ handling' \in {handling, NoHandling}
             /\ \A slot \in RequestSlots \ {handling.slot} :
                   requests'[slot] = requests[slot]
             /\ handling' = NoHandling
                => LET id == handling.request.conversation_id IN
                   /\ id \in DOMAIN conversations'
                   /\ conversations'[id] = messages
                   /\ StartsWith(messages, conversations[id])
       /\ \A id \in DOMAIN conversations :
             ChatStarted(id)
             => conversations'[id] = Append(conversations[id], Message("user", UserQuery))]_vars

\* a /chat handler is between two model calls while another /chat request
\* on the same conversation id is in flight
C25_Witness == BetweenModelCalls /\ RivalsInFlight # {}

\* the token the request being handled set on the shared client: the one
\* of its Authorization header, or the one its fallback login returned
RequestToken ==
    LET token == extract_token_from_header(handling.request.authorization) IN
    IF Truthy(token) THEN token ELSE handling.login

\* the step has invoked a tool
ToolInvoked == Iterated /\ invocations' # <<>>

\* C28: in the servers that take a credential with each /chat request,
\* the shared client holds the token of the request being handled from the
\* start of its handler to its end, whatever other requests are in flight:
\* every tool invocation is made with the token its own request set.
C28_CredentialsDoNotCross ==
    [][(variant \in Capped /\ Serving)
       => /\ hr_client = RequestToken
          /\ hr_client' = hr_client
          /\ ToolInvoked => hr_client' = RequestToken]_vars

\* a tool has been invoked for a request while a /chat request with another
\* Authorization header is in flight, after a request with another token
\* was handled
C28_Witness ==
    /\ variant \in Capped
    /\ Serving
    /\ invocations # <<>>
    /\ answer.to.kind = "chat"
    /\ answer.status = 200
    /\ answer.to.authorization # handling.request.authorization
    /\ \E slot \in RequestsInFlight :
          /\ slot # handling.slot
          /\ requests[slot].request.kind = "chat"
          /\ requests[slot].request.authorization # handling.request.authorization

\* C29: a conversation that is not in the store (never created, or deleted)
\* comes into the store only when the handler of a /chat request on its id
\* starts; a DELETE answered with 200 leaves its id out of the store; and a
\* /chat handler that returns writes the conversation it started from, which
\* is still stored: it neither re-creates a deleted conversation nor
\* replaces a newer one.
C29_DeletionIsFinal ==
    [][/\ \A id \in ConversationIds :
             (id \notin DOMAIN conversations /\ id \in DOMAIN conversations')
             => ChatStarted(id)
       /\ \A slot \in RequestSlots :
             (JustAnswered(slot, "delete") /\ answer'.status = 200)
             => requests[slot].request.conversation_id \notin DOMAIN conversations'
       /\ (Serving /\ handling' = NoHandling)
          => LET id == handling.request.conversation_id IN
             /\ id \in DOMAIN conversations
             /\ StartsWith(conversations'[id], conversations[id])]_vars

\* a DELETE has succeeded while a /chat request on the same id was in
\* flight, and the conversation is out of the store
C29_Witness ==
    /\ answer.to.kind = "delete"
    /\ answer.status = 200
    /\ answer.to.conversation_id \notin DOMAIN conversations
    /\ \E slot \in RequestsInFlight :
          /\ requests[slot].request.kind = "chat"
          /\ requests[slot].request.conversation_id = answer.to.conversation_id

\* the handler of the /chat request in `slot` has just started
StartedOn(slot) == handling = NoHandling /\ handling'.slot = slot

\* the /chat request in `slot` has just been turned away
Rejected(slot) == handling = NoHandling /\ JustAnswered(slot, "chat")

\* C30: in the servers that authenticate, a /chat request without an
\* Authorization header whose fallback login yields no token is answered
\* 401; a request answered 401 leaves the store, every transcript, the
\* shared client and the counts of model calls and tool invocations as they
\* were; and for a request with an Authorization header the fallback login
\* is not attempted.
C30_UnauthenticatedRejected ==
    [][(variant \in Capped)
       => \A slot \in RequestSlots :
             LET request == requests[slot].request
                 login == IF StartedOn(slot) THEN handling'.login ELSE answer'.login
             IN (StartedOn(slot) \/ Rejected(slot))
                => /\ (request.authorization = Absent /\ login # Str("fallback"))
                      => Rejected(slot)
                   /\ Rejected(slot)
                      => /\ answer'.status = 401
                         /\ conversations' = conversations
                         /\ messages' = messages
                         /\ model_calls' = model_calls
                         /\ invocations' = invocations
                         /\ hr_client' = hr_client
                   /\ (request.authorization # Absent) => (login = Absent)]_vars

====
